---- MODULE Spec2Model ----
(***************************************************************************)
(* PRI Training: the session engine of src/unnamed/part_000.               *)
(*                                                                         *)
(*   - calculatePRI, computed in IEEE-754 binary64 as JavaScript does      *)
(*   - shuffleArray and the two round generators                           *)
(*   - the App state, the game component with its timer hook, and the      *)
(*     AnimatePresence exit phase during which the game stays mounted      *)
(***************************************************************************)
EXTENDS Integers, Sequences, FiniteSets, TLC

(***************************************************************************)
(* Bounds of the exploration.                                              *)
(***************************************************************************)
\* sessions per run: a run is followed until one more game would mount
MaxSessions == 1

\* answers accepted per run
MaxAnswers == 2

\* interval ticks per run, over all sessions
MaxNow == 31

\* timer ticks of an endless session before its first stop
MaxEndlessTicks == 10

\* clicks on the stop button per session
MaxStops == 2

\* timer ticks after the first call of onEnd of a session, while the game
\* component is still mounted for its exit animation
MaxExitTicks == 1

\* shuffle tapes explored by the sessions, and by the generators on their own
NumSeeds == 1

NumGenSeeds == 24

\* inputs of calculatePRI on its own
MaxScoreIn == 30

MaxMistakesIn == 5

MaxElapsedIn == 100

Seeds == 0..(NumSeeds - 1)

GenSeeds == 0..(NumGenSeeds - 1)

(***************************************************************************)
(* Small helpers.                                                          *)
(***************************************************************************)
Max(a, b) == IF a >= b THEN a ELSE b

Min(a, b) == IF a <= b THEN a ELSE b

\* a function with domain 1..n as an explicit tuple
Tup(f) == f \o <<>>

Zeros(n) == Tup([i \in 1..n |-> 0])

(***************************************************************************)
(* IEEE-754 binary64 numbers (JavaScript Number).  A finite double is      *)
(* [neg, m, e]: m is the 53-bit significand, most significant bit first,   *)
(* with a leading 1 (the empty sequence for zero), and the value is        *)
(* (-1)^neg * m * 2^e.  Every operation computes the exact result on bit   *)
(* sequences and rounds it to nearest, ties to even, as the hardware does. *)
(* Subnormals, infinities and NaN do not arise for the operands            *)
(* calculatePRI produces.                                                  *)
(***************************************************************************)
MantBits == 53

\* extra quotient bits kept by a division; enough for divisors below 2^14
GuardBits == 16

StripZeros(b) ==
    LET nz == {i \in 1..Len(b) : b[i] = 1}
    IN  IF nz = {} THEN <<>>
        ELSE SubSeq(b, CHOOSE i \in nz : \A j \in nz : i <= j, Len(b))

PadLeft(b, n) == Zeros(n - Len(b)) \o b

\* b + 1 on a bit sequence; one bit longer when b is all ones
Incr(b) ==
    LET zs == {i \in 1..Len(b) : b[i] = 0}
    IN  IF zs = {} THEN <<1>> \o Zeros(Len(b))
        ELSE LET k == CHOOSE i \in zs : \A j \in zs : j <= i
             IN  Tup([i \in 1..Len(b) |-> IF i < k THEN b[i] ELSE IF i = k THEN 1 ELSE 0])

\* The arithmetic on bit sequences goes through limbs of LimbBits bits, so
\* that a carry chain is a few steps long.
LimbBits == 16

LimbBase == 2 ^ LimbBits

Limb(s) ==
    s[1] * 32768 + s[2] * 16384 + s[3] * 8192 + s[4] * 4096 + s[5] * 2048
    + s[6] * 1024 + s[7] * 512 + s[8] * 256 + s[9] * 128 + s[10] * 64
    + s[11] * 32 + s[12] * 16 + s[13] * 8 + s[14] * 4 + s[15] * 2 + s[16]

ToLimbs(b) ==
    LET k == (Len(b) + LimbBits - 1) \div LimbBits
        p == PadLeft(b, k * LimbBits)
    IN  Tup([j \in 1..k |-> Limb(SubSeq(p, (j - 1) * LimbBits + 1, j * LimbBits))])

FromLimbs(x) ==
    Tup([i \in 1..(Len(x) * LimbBits) |->
        (x[((i - 1) \div LimbBits) + 1] \div (2 ^ (LimbBits - 1 - ((i - 1) % LimbBits)))) % 2])

\* the binary expansion of a natural below 2^30, most significant bit first
NatBits(n) ==
    LET len == CHOOSE k \in 0..30 : 2 ^ k > n /\ (k = 0 \/ 2 ^ (k - 1) <= n)
    IN  Tup([i \in 1..len |-> (n \div (2 ^ (len - i))) % 2])

\* the natural a bit sequence of less than 31 significant bits denotes
BitsNat(b) ==
    LET x == ToLimbs(b)
    IN  IF Len(x) = 0 THEN 0
        ELSE IF Len(x) = 1 THEN x[1]
        ELSE x[Len(x) - 1] * LimbBase + x[Len(x)]

\* a + b, both of the same length
AddBits(a, b) ==
    LET x == ToLimbs(a)
        y == ToLimbs(b)
        n == Len(x)
        c[j \in 1..(n + 1)] ==
            IF j = n + 1 THEN 0 ELSE (x[j] + y[j] + c[j + 1]) \div LimbBase
    IN  FromLimbs(<<c[1]>> \o [j \in 1..n |-> (x[j] + y[j] + c[j + 1]) % LimbBase])

\* a - b, both of the same length, a >= b
SubBits(a, b) ==
    LET x == ToLimbs(a)
        y == ToLimbs(b)
        n == Len(x)
        w[j \in 1..(n + 1)] ==
            IF j = n + 1 THEN 0 ELSE IF x[j] - y[j] - w[j + 1] < 0 THEN 1 ELSE 0
    IN  FromLimbs(Tup([j \in 1..n |-> (x[j] - y[j] - w[j + 1] + LimbBase) % LimbBase]))

\* a >= b, both of the same length
GeBits(a, b) ==
    LET d == {i \in 1..Len(a) : a[i] # b[i]}
    IN  d = {} \/ a[CHOOSE i \in d : \A j \in d : i <= j] = 1

\* b * k for a natural k below 2^15
MulBits(b, k) ==
    LET x == ToLimbs(b)
        n == Len(x)
        c[j \in 1..(n + 1)] ==
            IF j = n + 1 THEN 0 ELSE (x[j] * k + c[j + 1]) \div LimbBase
    IN  FromLimbs(<<c[1]>> \o [j \in 1..n |-> (x[j] * k + c[j + 1]) % LimbBase])

\* b \div d and b % d for a positive d below 2^15, by long division
DivBits(b, d) ==
    LET x == ToLimbs(b)
        n == Len(x)
        r[j \in 0..n] == IF j = 0 THEN 0 ELSE (r[j - 1] * LimbBase + x[j]) % d
    IN  [q |-> FromLimbs(Tup([j \in 1..n |-> (r[j - 1] * LimbBase + x[j]) \div d])),
         r |-> r[n]]

FZero == [neg |-> FALSE, m |-> <<>>, e |-> 0]

\* the double nearest to (-1)^neg * (bits + s) * 2^e, where 0 <= s < 1 and
\* sticky says s > 0 (a sticky result carries more than MantBits + 1 bits)
RoundNearestEven(neg, bits, e, sticky) ==
    LET b == StripZeros(bits)
        n == Len(b)
    IN  IF n = 0 THEN FZero
        ELSE IF n <= MantBits
        THEN [neg |-> neg, m |-> b \o Zeros(MantBits - n), e |-> e - (MantBits - n)]
        ELSE LET keep  == SubSeq(b, 1, MantBits)
                 guard == b[MantBits + 1] = 1
                 rest  == sticky \/ \E i \in (MantBits + 2)..n : b[i] = 1
                 up    == guard /\ (rest \/ keep[MantBits] = 1)
                 inc   == IF up THEN Incr(keep) ELSE keep
             IN  IF Len(inc) > MantBits
                 THEN [neg |-> neg, m |-> SubSeq(inc, 1, MantBits), e |-> e + (n - MantBits) + 1]
                 ELSE [neg |-> neg, m |-> inc, e |-> e + (n - MantBits)]

\* the Number that an integer literal or integer-valued variable holds
FromInt(n) ==
    RoundNearestEven(n < 0, NatBits(IF n < 0 THEN -n ELSE n), 0, FALSE)

\* x * k, k a small natural
FMul(x, k) == RoundNearestEven(x.neg, MulBits(x.m, k), x.e, FALSE)

\* x / d, d a small positive integer
FDiv(x, d) ==
    LET qr == DivBits(x.m \o Zeros(GuardBits), d)
    IN  RoundNearestEven(x.neg, qr.q, x.e - GuardBits, qr.r # 0)

\* x + n, n an integer
FAdd(x, n) ==
    LET xm   == x.m \o Zeros(Max(x.e, 0))
        xe   == Min(x.e, 0)
        nm   == NatBits(IF n < 0 THEN -n ELSE n) \o Zeros(-xe)
        len  == Max(Len(xm), Len(nm))
        xp   == PadLeft(xm, len)
        np   == PadLeft(nm, len)
    IN  IF x.neg = (n < 0) THEN RoundNearestEven(x.neg, AddBits(xp, np), xe, FALSE)
        ELSE IF GeBits(xp, np)
        THEN RoundNearestEven(x.neg /\ xp # np, SubBits(xp, np), xe, FALSE)
        ELSE RoundNearestEven(n < 0, SubBits(np, xp), xe, FALSE)

\* Math.round: the nearest integer, a tie going towards +Infinity
MathRound(x) ==
    IF x.m = <<>> THEN 0
    ELSE IF x.e >= 0
    THEN (IF x.neg THEN -1 ELSE 1) * BitsNat(x.m \o Zeros(x.e))
    ELSE LET f    == -x.e
             ip   == IF f >= MantBits THEN <<>> ELSE SubSeq(x.m, 1, MantBits - f)
             fr   == IF f >= MantBits THEN Zeros(f - MantBits) \o x.m
                     ELSE SubSeq(x.m, MantBits - f + 1, MantBits)
             half == fr[1] = 1
             more == \E i \in 2..Len(fr) : fr[i] = 1
         IN  IF x.neg
             THEN -(BitsNat(ip) + (IF half /\ more THEN 1 ELSE 0))
             ELSE BitsNat(ip) + (IF half THEN 1 ELSE 0)

(***************************************************************************)
(* calculatePRI (lines 38-46).                                             *)
(***************************************************************************)
\* variant: line 40 takes the distance of score and mistakes, without Math.max
priBeforeRoundingAbs(score_, mistakes_, elapsedSeconds, gameType_) ==
    LET rawScore      == Max(mistakes_ - score_, score_ - mistakes_)
        ratePerMinute == FMul(FDiv(FromInt(rawScore), elapsedSeconds), 60)
        mean          == IF gameType_ = "symbol-match" THEN 45 ELSE 30
        sd            == IF gameType_ = "symbol-match" THEN 12 ELSE 8
    IN  FAdd(FMul(FDiv(FAdd(ratePerMinute, -mean), sd), 15), 100)

\* the double pri of lines 40-44, for elapsedSeconds > 0
priBeforeRounding(score_, mistakes_, elapsedSeconds, gameType_) ==
    LET rawScore      == Max(0, score_ - mistakes_)
        ratePerMinute == FMul(FDiv(FromInt(rawScore), elapsedSeconds), 60)
        mean          == IF gameType_ = "symbol-match" THEN 45 ELSE 30
        sd            == IF gameType_ = "symbol-match" THEN 12 ELSE 8
    IN  FAdd(FMul(FDiv(FAdd(ratePerMinute, -mean), sd), 15), 100)

\* variant: line 45 without Math.max and Math.min
calculatePRIUnclamped(score_, mistakes_, elapsedSeconds, gameType_) ==
    IF elapsedSeconds < 10 THEN 0
    ELSE MathRound(priBeforeRounding(score_, mistakes_, elapsedSeconds, gameType_))

calculatePRI(score_, mistakes_, elapsedSeconds, gameType_) ==
    IF elapsedSeconds < 10 THEN 0
    ELSE Max(40, Min(160, MathRound(priBeforeRounding(score_, mistakes_, elapsedSeconds, gameType_))))

\* calculatePRI tabulated for the arguments a session can pass; @@ makes the
\* table an explicit function, computed once
PRITable ==
    [a \in (0..MaxAnswers) \X (0..MaxAnswers) \X (0..MaxNow) \X {"symbol-match", "coding"} |->
        calculatePRI(a[1], a[2], a[3], a[4])] @@ <<>>

(***************************************************************************)
(* Math.random().  A call returns v / RandMod for some v in 0..RandMod-1.  *)
(* The calls of one shuffle read consecutive values of a tape; the tapes   *)
(* explored are those of a full-period congruential generator, one per     *)
(* seed.  A single draw (the coin flip, the choice of a target, the next   *)
(* digit) ranges over all of its outcomes.                                 *)
(***************************************************************************)
RandMod == 256

RECURSIVE Rand(_, _)
Rand(seed, k) == IF k = 0 THEN seed % RandMod ELSE (137 * Rand(seed, k - 1) + 187) % RandMod

\* Math.floor(Math.random() * n) for the k-th call of tape seed
RandomInt(seed, k, n) == (Rand(seed, k) * n) \div RandMod

(***************************************************************************)
(* Symbol pool and shuffleArray (lines 9-21).                              *)
(***************************************************************************)
ALL_SYMBOLS ==
    << "Star", "Circle", "Triangle", "Square", "Hexagon", "Diamond", "Cloud", "Sun",
       "Moon", "Heart", "Zap", "Flame", "Droplet", "Leaf", "Snowflake" >>

Swap(arr, p, q) == Tup([x \in 1..Len(arr) |-> IF x = p THEN arr[q] ELSE IF x = q THEN arr[p] ELSE arr[x]])

\* the loop of shuffleArray from position p (1-based) down to 2
RECURSIVE ShuffleLoop(_, _, _)
ShuffleLoop(newArr, p, seed) ==
    IF p < 2 THEN newArr
    ELSE ShuffleLoop(Swap(newArr, p, RandomInt(seed, Len(newArr) - p + 1, p) + 1), p - 1, seed)

shuffleArray(array, seed) == ShuffleLoop(array, Len(array), seed)

\* shuffleArray([...ALL_SYMBOLS]) (lines 290, 404), tabulated for the tapes explored
PoolShuffles == [seed \in Seeds \cup GenSeeds |-> shuffleArray(ALL_SYMBOLS, seed)]

PoolShuffle(seed) == PoolShuffles[seed]

\* array.slice(from, to) with JavaScript's 0-based, end-exclusive indices
Slice(array, from, to) == SubSeq(array, from + 1, Min(to, Len(array)))

(***************************************************************************)
(* SymbolMatchGame.generateRound (lines 289-307): the trial it sets, for   *)
(* the tape s1 of the first shuffle, the coin flip match, the index pick   *)
(* of the target to include and the tape s2 of the second shuffle.         *)
(***************************************************************************)
\* variant: the match branch takes its other symbols from index 1 on
MatchRoundRepeat(s1, match, pick, s2) ==
    LET shuffled   == PoolShuffle(s1)
        newTargets == Slice(shuffled, 0, 2)
    IN  [ targets     |-> newTargets,
          searchGroup |-> IF match
                          THEN shuffleArray(<<newTargets[pick + 1]>> \o Slice(shuffled, 1, 5), s2)
                          ELSE Slice(shuffled, 2, 7),
          isMatch     |-> match ]

\* variant: the no-match branch slices from index 1, so that it keeps a target
MatchRoundOverlap(s1, match, pick, s2) ==
    LET shuffled   == PoolShuffle(s1)
        newTargets == Slice(shuffled, 0, 2)
    IN  [ targets     |-> newTargets,
          searchGroup |-> IF match
                          THEN shuffleArray(<<newTargets[pick + 1]>> \o Slice(shuffled, 2, 6), s2)
                          ELSE Slice(shuffled, 1, 6),
          isMatch     |-> match ]

MatchRound(s1, match, pick, s2) ==
    LET shuffled   == PoolShuffle(s1)
        newTargets == Slice(shuffled, 0, 2)
    IN  [ targets     |-> newTargets,
          searchGroup |-> IF match
                          THEN shuffleArray(<<newTargets[pick + 1]>> \o Slice(shuffled, 2, 6), s2)
                          ELSE Slice(shuffled, 2, 7),
          isMatch     |-> match ]

(***************************************************************************)
(* CodingGame.generateRound (lines 402-420).  The do-while loop draws the  *)
(* next number until it differs from currentNumber; NextNumbers is the set *)
(* of values it can end with.                                              *)
(***************************************************************************)
\* variant: a single draw, without the loop
NextNumbersAny(cur) == 1..5

NextNumbers(cur) == {n \in 1..5 : n # cur}

\* variant: the map is filled from index i - 2, kept at 0 or above
CodingRoundRepeat(s1, s2, nextNum) ==
    LET shuffled == PoolShuffle(s1)
    IN  [ map           |-> [i \in 1..5 |-> shuffled[Max(1, i - 1)]],
          buttonOrder   |-> shuffleArray(<<1, 2, 3, 4, 5>>, s2),
          currentNumber |-> nextNum ]

CodingRound(s1, s2, nextNum) ==
    LET shuffled == PoolShuffle(s1)
    IN  [ map           |-> [i \in 1..5 |-> shuffled[i]],
          buttonOrder   |-> shuffleArray(<<1, 2, 3, 4, 5>>, s2),
          currentNumber |-> nextNum ]

(***************************************************************************)
(* State.                                                                  *)
(***************************************************************************)
VARIABLES
    \* App (lines 81-88)
    screen, gameType, timeLimit, score, mistakes, stats, currentPri, currentElapsed,
    \* localStorage item pri_stats (lines 102, 133)
    stored,
    \* the screen component AnimatePresence mode="wait" keeps mounted (line 141):
    \* it differs from screen while the old component plays its exit animation
    shown,
    \* useGameTimer of the mounted game (lines 49-51)
    timeDisplay, elapsedRef, onEndRef,
    \* SymbolMatchGame / CodingGame state (lines 279-283, 391-395)
    round, targets, searchGroup, isMatch, map, buttonOrder, currentNumber, feedback,
    \* setTimeout callbacks not yet run: of the mounted game, of unmounted games
    pending, orphans,
    \* history: game mounts so far; of the mounted game, the answers accepted,
    \* the answers accepted on the current trial, the interval ticks, the calls
    \* of onEnd and the last of them
    sessions, answered, trialAnswers, ticks, endCalls, lastEnd,
    \* interval ticks and answers of the run so far
    now, totalAnswers,
    \* a function applied: its inputs and its result; in a session, the
    \* answer clicked on the trial shown
    probe

appVars == <<screen, gameType, timeLimit, score, mistakes, stats, currentPri, currentElapsed, stored>>

timerVars == <<timeDisplay, elapsedRef, onEndRef>>

trialVars == <<round, targets, searchGroup, isMatch, map, buttonOrder, currentNumber, feedback>>

histVars == <<sessions, answered, trialAnswers, ticks, endCalls, lastEnd, now, totalAnswers>>

vars == <<appVars, shown, timerVars, trialVars, pending, orphans, histVars, probe>>

Games == {"symbol-match", "coding"}

\* TimeLimit (line 25) is 30 | 60 | 120 | 'endless'; the string is modelled
\* by a number that is no duration
endless == 0

\* the time limits the home screen offers (line 226)
TimeLimits == {30, 60, 120, endless}

\* those a run selects; 60 is the initial one (line 83)
TimeLimitChoices == {30, endless}

NoEnd == [elapsed |-> -1, src |-> "none", tick |-> -1, display |-> -1, first |-> -1]

\* the values the endGame closure of the current App render captures (line 136)
Closure(gt, sc, mi, tl, st) ==
    [gameType |-> gt, score |-> sc, mistakes |-> mi, timeLimit |-> tl, stats |-> st]

NoClosure == Closure("null", 0, 0, 60, <<>>)

\* StatEntry (lines 27-36, 121-130); id and date, both Date.now(), are left out
StatEntry(c, pri, finalElapsed) ==
    [ gameType |-> c.gameType, pri |-> pri, score |-> c.score, mistakes |-> c.mistakes,
      timeLimit |-> c.timeLimit, elapsed |-> finalElapsed ]

\* the initial state but for the history and the stored item
InitRest ==
    /\ screen = "home" /\ gameType = "null" /\ timeLimit = 60
    /\ score = 0 /\ mistakes = 0
    /\ currentPri = 0 /\ currentElapsed = 0
    /\ shown = "home"
    /\ timeDisplay = 0 /\ elapsedRef = 0 /\ onEndRef = NoClosure
    /\ round = 0 /\ targets = <<>> /\ searchGroup = <<>> /\ isMatch = FALSE
    /\ map = <<>> /\ buttonOrder = <<>> /\ currentNumber = 1 /\ feedback = "null"
    /\ pending = 0 /\ orphans = 0
    /\ sessions = 0 /\ answered = 0 /\ trialAnswers = 0 /\ ticks = 0
    /\ endCalls = 0 /\ lastEnd = NoEnd
    /\ now = 0 /\ totalAnswers = 0

\* the App after its first render and the load effect, nothing stored
InitBase == InitRest /\ stats = <<>> /\ stored = <<>>

NoProbe == [fn |-> "none", in |-> <<>>, out |-> <<>>]

Init == InitBase /\ probe = NoProbe

(***************************************************************************)
(* App.startGame (lines 108-113) and the navigation handlers.              *)
(***************************************************************************)
\* variant: without setMistakes(0)
startGameKeepMistakes(type) ==
    /\ gameType' = type
    /\ score' = 0
    /\ UNCHANGED mistakes
    /\ screen' = type

\* variant: without setGameType(type)
startGameKeepType(type) ==
    /\ UNCHANGED gameType
    /\ score' = 0
    /\ mistakes' = 0
    /\ screen' = type

startGame(type) ==
    /\ gameType' = type
    /\ score' = 0
    /\ mistakes' = 0
    /\ screen' = type

gameVars == <<timerVars, trialVars, pending, orphans, histVars>>

\* HomeScreen: a time limit button (line 229)
SetTimeLimit ==
    /\ shown = "home"
    /\ \E t \in TimeLimitChoices : timeLimit' = t
    /\ UNCHANGED <<screen, gameType, score, mistakes, stats, currentPri, currentElapsed, stored>>
    /\ UNCHANGED <<shown, gameVars, probe>>

\* HomeScreen: one of the two start buttons (lines 240, 253)
StartFromHome ==
    /\ shown = "home"
    /\ \E type \in Games : startGame(type)
    /\ UNCHANGED <<timeLimit, stats, currentPri, currentElapsed, stored>>
    /\ UNCHANGED <<shown, gameVars, probe>>

\* HomeScreen: the statistics button (lines 148, 267)
OpenStats ==
    /\ shown = "home"
    /\ screen' = "stats"
    /\ UNCHANGED <<gameType, timeLimit, score, mistakes, stats, currentPri, currentElapsed, stored>>
    /\ UNCHANGED <<shown, gameVars, probe>>

\* ResultScreen: onRetry (line 183)
Retry ==
    /\ shown = "result"
    /\ startGame(gameType)
    /\ UNCHANGED <<timeLimit, stats, currentPri, currentElapsed, stored>>
    /\ UNCHANGED <<shown, gameVars, probe>>

\* ResultScreen and StatsScreen: onHome (lines 184, 191)
GoHome ==
    /\ shown \in {"result", "stats"}
    /\ screen' = "home"
    /\ UNCHANGED <<gameType, timeLimit, score, mistakes, stats, currentPri, currentElapsed, stored>>
    /\ UNCHANGED <<shown, gameVars, probe>>

(***************************************************************************)
(* App.endGame (lines 115-136), called through onEndRef: c is the closure  *)
(* the reference holds.                                                    *)
(***************************************************************************)
\* variant: without the condition of line 120
endGameAlways(c, finalElapsed) ==
    LET pri == PRITable[<<c.score, c.mistakes, finalElapsed, c.gameType>>]
        updatedStats == Append(c.stats, StatEntry(c, pri, finalElapsed))
    IN  /\ currentPri' = pri
        /\ currentElapsed' = finalElapsed
        /\ stats' = updatedStats /\ stored' = updatedStats
        /\ screen' = "result"

\* variant: the summary takes the index from the App state, not from pri
endGameStateIndex(c, finalElapsed) ==
    LET pri == PRITable[<<c.score, c.mistakes, finalElapsed, c.gameType>>]
    IN  /\ currentPri' = pri
        /\ currentElapsed' = finalElapsed
        /\ IF finalElapsed >= 10
           THEN LET updatedStats == Append(c.stats, StatEntry(c, currentPri, finalElapsed))
                IN  stats' = updatedStats /\ stored' = updatedStats
           ELSE UNCHANGED <<stats, stored>>
        /\ screen' = "result"

endGame(c, finalElapsed) ==
    LET pri == PRITable[<<c.score, c.mistakes, finalElapsed, c.gameType>>]
    IN  /\ currentPri' = pri
        /\ currentElapsed' = finalElapsed
        /\ IF finalElapsed >= 10
           THEN LET updatedStats == Append(c.stats, StatEntry(c, pri, finalElapsed))
                IN  stats' = updatedStats /\ stored' = updatedStats
           ELSE UNCHANGED <<stats, stored>>
        /\ screen' = "result"

\* the history of a call of onEnd: its argument, its caller, the ticks and the
\* display at the call, and the ticks at the first call of the session
EndCalled(finalElapsed, src, tick, display) ==
    /\ endCalls' = endCalls + 1
    /\ lastEnd' = [ elapsed |-> finalElapsed, src |-> src, tick |-> tick, display |-> display,
                    first |-> IF endCalls = 0 THEN tick ELSE lastEnd.first ]

(***************************************************************************)
(* useGameTimer (lines 48-78).                                             *)
(***************************************************************************)
\* useState initial value (line 49)
InitialDisplay(limit) == IF limit = endless THEN 0 ELSE limit

\* variant: the countdown display is not decremented
NextDisplayFrozen(limit, display, elapsed) == IF limit # endless THEN display ELSE elapsed

\* the state update of the interval callback (lines 60-64); elapsed is
\* elapsedRef.current after its increment
NextDisplay(limit, display, elapsed) == IF limit # endless THEN display - 1 ELSE elapsed

\* variant: the condition without its test of the limit
ExpiredAnyLimit(limit, display) == display <= 0

\* the condition of the expiry effect (line 70)
Expired(limit, display) == limit # endless /\ display <= 0

\* how long the interval is followed
TickCap ==
    IF endCalls > 0 THEN lastEnd.first + MaxExitTicks
    ELSE IF timeLimit = endless THEN MaxEndlessTicks
    ELSE timeLimit

\* the interval callback, the render it causes and the expiry effect
Tick ==
    /\ shown \in Games
    /\ ticks < TickCap
    /\ now < MaxNow
    /\ now' = now + 1
    /\ elapsedRef' = elapsedRef + 1
    /\ timeDisplay' = NextDisplay(timeLimit, timeDisplay, elapsedRef')
    /\ ticks' = ticks + 1
    /\ IF Expired(timeLimit, timeDisplay')
       THEN /\ endGame(onEndRef, elapsedRef')
            /\ EndCalled(elapsedRef', "tick", ticks', timeDisplay')
       ELSE UNCHANGED <<screen, stats, stored, currentPri, currentElapsed, endCalls, lastEnd>>
    /\ UNCHANGED <<gameType, timeLimit, score, mistakes, shown, onEndRef, trialVars>>
    /\ UNCHANGED <<pending, orphans, sessions, answered, trialAnswers, totalAnswers, probe>>

\* variant: the stop button is rendered for every limit
StopAnyLimit ==
    /\ shown \in Games
    /\ endCalls < MaxStops
    /\ endGame(onEndRef, elapsedRef)
    /\ EndCalled(elapsedRef, "stop", ticks, timeDisplay)
    /\ UNCHANGED <<gameType, timeLimit, score, mistakes, shown, timerVars, trialVars>>
    /\ UNCHANGED <<pending, orphans, sessions, answered, trialAnswers, ticks, now, totalAnswers, probe>>

\* the stop button, rendered for the endless limit only (lines 75, 527-531)
Stop ==
    /\ shown \in Games
    /\ timeLimit = endless
    /\ endCalls < MaxStops
    /\ endGame(onEndRef, elapsedRef)
    /\ EndCalled(elapsedRef, "stop", ticks, timeDisplay)
    /\ UNCHANGED <<gameType, timeLimit, score, mistakes, shown, timerVars, trialVars>>
    /\ UNCHANGED <<pending, orphans, sessions, answered, trialAnswers, ticks, now, totalAnswers, probe>>

(***************************************************************************)
(* The game components (lines 277-320, 389-433).                           *)
(***************************************************************************)
\* the effect on round of SymbolMatchGame (lines 285-307)
generateRoundMatch ==
    \E s1 \in Seeds, match \in BOOLEAN, pick \in 0..1, s2 \in Seeds :
        LET t == MatchRound(s1, match, pick, s2)
        IN  /\ targets' = t.targets
            /\ searchGroup' = t.searchGroup
            /\ isMatch' = t.isMatch
            /\ feedback' = "null"
            /\ UNCHANGED <<map, buttonOrder, currentNumber>>

\* the effect on round of CodingGame (lines 398-420)
generateRoundCoding ==
    \E s1 \in Seeds, s2 \in Seeds, nextNum \in NextNumbers(currentNumber) :
        LET t == CodingRound(s1, s2, nextNum)
        IN  /\ map' = t.map
            /\ buttonOrder' = t.buttonOrder
            /\ currentNumber' = t.currentNumber
            /\ feedback' = "null"
            /\ UNCHANGED <<targets, searchGroup, isMatch>>

\* the first render of a game and its mount effects: the timer state, the
\* reference to onEnd, the first round, the expiry effect
MountGame(g) ==
    /\ timeDisplay' = InitialDisplay(timeLimit)
    /\ elapsedRef' = 0
    /\ onEndRef' = Closure(gameType, score, mistakes, timeLimit, stats)
    /\ round' = 0
    /\ IF g = "symbol-match" THEN generateRoundMatch ELSE generateRoundCoding
    /\ pending' = 0
    /\ UNCHANGED orphans
    /\ sessions' = sessions + 1
    /\ answered' = 0 /\ trialAnswers' = 0 /\ ticks' = 0
    /\ UNCHANGED <<now, totalAnswers>>
    /\ IF Expired(timeLimit, timeDisplay')
       THEN /\ endGame(onEndRef', 0)
            /\ EndCalled(0, "mount", 0, timeDisplay')
            /\ UNCHANGED <<gameType, timeLimit, score, mistakes>>
       ELSE /\ endCalls' = 0 /\ lastEnd' = NoEnd
            /\ UNCHANGED appVars

\* the unmount of a game: the interval is cleared (line 66), the timeouts
\* are not, the component state is gone
UnmountGame ==
    /\ timeDisplay' = 0 /\ elapsedRef' = 0 /\ onEndRef' = NoClosure
    /\ round' = 0 /\ targets' = <<>> /\ searchGroup' = <<>> /\ isMatch' = FALSE
    /\ map' = <<>> /\ buttonOrder' = <<>> /\ currentNumber' = 1 /\ feedback' = "null"
    /\ pending' = 0
    /\ orphans' = orphans + pending
    /\ answered' = 0 /\ trialAnswers' = 0 /\ ticks' = 0 /\ endCalls' = 0 /\ lastEnd' = NoEnd
    /\ UNCHANGED <<sessions, now, totalAnswers>>

\* AnimatePresence mode="wait" (line 141): the exit animation of the mounted
\* screen ends, it unmounts and the screen of the App state mounts
ExitComplete ==
    /\ shown # screen
    /\ shown' = screen
    /\ IF screen \in Games THEN sessions < MaxSessions /\ MountGame(screen)
       ELSE IF shown \in Games THEN UnmountGame /\ UNCHANGED appVars
       ELSE UNCHANGED <<appVars, gameVars>>
    /\ probe' = NoProbe

\* whether an answer is the correct one (lines 310, 423)
MatchCorrect(userSaysMatch) == userSaysMatch = isMatch

CodingCorrect(num) == num = currentNumber

\* variant: an incorrect answer takes a point back as well
handleAnswerPenalty(correct) ==
    /\ IF correct
       THEN score' = score + 1 /\ feedback' = "correct" /\ UNCHANGED mistakes
       ELSE mistakes' = mistakes + 1 /\ feedback' = "incorrect" /\ score' = score - 1
    /\ pending' = pending + 1

\* the two branches of handleAnswer and its setTimeout (lines 309-320, 422-433)
handleAnswer(correct) ==
    /\ IF correct
       THEN score' = score + 1 /\ feedback' = "correct" /\ UNCHANGED mistakes
       ELSE mistakes' = mistakes + 1 /\ feedback' = "incorrect" /\ UNCHANGED score
    /\ pending' = pending + 1

\* a click on an answer button of the mounted game; the App renders, and a
\* game that is not exiting gets the new onEnd (lines 53-55)
Answer ==
    /\ shown \in Games
    /\ totalAnswers < MaxAnswers
    /\ IF shown = "symbol-match"
       THEN \E userSaysMatch \in BOOLEAN :
                /\ handleAnswer(MatchCorrect(userSaysMatch))
                /\ probe' = [fn |-> "handleAnswer", in |-> <<userSaysMatch>>, out |-> <<>>]
       ELSE \E num \in {buttonOrder[i] : i \in 1..Len(buttonOrder)} :
                /\ handleAnswer(CodingCorrect(num))
                /\ probe' = [fn |-> "handleAnswer", in |-> <<num>>, out |-> <<>>]
    /\ onEndRef' = IF shown = screen
                   THEN Closure(gameType, score', mistakes', timeLimit, stats)
                   ELSE onEndRef
    /\ answered' = answered + 1
    /\ totalAnswers' = totalAnswers + 1
    /\ trialAnswers' = trialAnswers + 1
    /\ UNCHANGED <<screen, gameType, timeLimit, stats, currentPri, currentElapsed, stored, shown>>
    /\ UNCHANGED <<timeDisplay, elapsedRef, round, targets, searchGroup, isMatch>>
    /\ UNCHANGED <<map, buttonOrder, currentNumber, orphans, sessions, ticks, endCalls, lastEnd, now>>

\* timeouts of the mounted game run, k of them before React renders: setRound
\* for each, then one render and the effect on round
Advance ==
    /\ shown \in Games
    /\ \E k \in 1..pending :
           /\ pending' = pending - k
           /\ round' = round + k
    /\ IF shown = "symbol-match" THEN generateRoundMatch ELSE generateRoundCoding
    /\ trialAnswers' = 0
    /\ UNCHANGED <<appVars, shown, timerVars, orphans, sessions, answered, ticks, endCalls, lastEnd>>
    /\ probe' = NoProbe
    /\ UNCHANGED <<now, totalAnswers>>

\* a timeout of an unmounted game runs: setRound on it changes nothing
OrphanTimeout ==
    /\ orphans > 0
    /\ orphans' = orphans - 1
    /\ UNCHANGED <<appVars, shown, timerVars, trialVars, pending, histVars, probe>>

Next ==
    \/ SetTimeLimit
    \/ StartFromHome
    \/ OpenStats
    \/ Retry
    \/ GoHome
    \/ ExitComplete
    \/ Tick
    \/ Stop
    \/ Answer
    \/ Advance
    \/ OrphanTimeout

Spec == Init /\ [][Next]_vars

\* the same program with the scheduling of its interval: while a game is
\* mounted the callback of setInterval (lines 57-65) runs again and again,
\* whatever else happens
SpecFair == Init /\ [][Next]_vars /\ WF_vars(Tick)

(***************************************************************************)
(* calculatePRI on its own, over a grid of inputs.                         *)
(***************************************************************************)
InitPRI ==
    /\ InitBase
    /\ \E sc \in 0..MaxScoreIn, mi \in 0..MaxMistakesIn, el \in 0..MaxElapsedIn, gt \in Games :
           probe = [fn |-> "input", in |-> <<sc, mi, el, gt>>, out |-> <<>>]

ApplyPRI ==
    /\ probe.fn = "input"
    /\ probe' = [ fn  |-> "calculatePRI", in |-> probe.in,
                  out |-> calculatePRI(probe.in[1], probe.in[2], probe.in[3], probe.in[4]) ]
    /\ UNCHANGED <<appVars, shown, gameVars>>

SpecPRI == InitPRI /\ [][ApplyPRI]_vars

(***************************************************************************)
(* The round generators on their own, applied once, over more shuffle      *)
(* tapes.                                                                  *)
(***************************************************************************)
ApplyMatchRound ==
    /\ probe.fn = "none"
    /\ \E s1 \in GenSeeds, match \in BOOLEAN, pick \in 0..1, s2 \in GenSeeds :
           probe' = [fn |-> "MatchRound", in |-> <<>>, out |-> MatchRound(s1, match, pick, s2)]
    /\ UNCHANGED <<appVars, shown, gameVars>>

\* cur is currentNumber at the call: 1 at first (line 394), then that of the
\* trial before
ApplyCodingRound ==
    /\ probe.fn = "none"
    /\ \E cur \in 1..5, s1 \in GenSeeds, s2 \in GenSeeds :
           \E nextNum \in NextNumbers(cur) :
               probe' = [fn |-> "CodingRound", in |-> <<cur>>, out |-> CodingRound(s1, s2, nextNum)]
    /\ UNCHANGED <<appVars, shown, gameVars>>

NextGen == ApplyMatchRound \/ ApplyCodingRound

SpecGen == Init /\ [][NextGen]_vars

(***************************************************************************)
(* The load effect (lines 101-106) on its own, for any content of the      *)
(* localStorage item, and the first use of the history it leaves: by       *)
(* endGame (line 131) or by StatsScreen (line 616).  The history need not   *)
(* be an array here, so stats and the parsed item are JavaScript values    *)
(* [kind, of, items]: items are the elements of an array or the characters *)
(* of a string, of says what they are.                                     *)
(***************************************************************************)
JSValue(kind, of, items) == [kind |-> kind, of |-> of, items |-> items]

JSArray(of, items) == JSValue("array", of, items)

JSScalars == {JSValue(k, "none", <<>>) : k \in {"null", "number", "boolean", "object"}}

\* a summary as an earlier run has stored it
StoredEntry ==
    [ gameType |-> "coding", pri |-> 100, score |-> 10, mistakes |-> 0,
      timeLimit |-> 30, elapsed |-> 30 ]

\* the values a JSON text can parse to
JSValues ==
    JSScalars \cup
    { JSValue("string", "chars", <<"a">>),
      JSArray("numbers", <<7>>),
      JSArray("summaries", <<>>),
      JSArray("summaries", <<StoredEntry>>) }

\* localStorage.getItem('pri_stats'): null, or a string that is empty, that
\* JSON.parse rejects, or that it parses to value
StoredItem(text, value) == [text |-> text, value |-> value]

StoredItems ==
    {StoredItem(t, JSValue("null", "none", <<>>)) : t \in {"absent", "empty", "garbage"}}
        \cup {StoredItem("json", v) : v \in JSValues}

\* the history of useState (line 86)
EmptyHistory == JSArray("summaries", <<>>)

\* [...value, x] (line 131): the elements of an array, the characters of a
\* string; anything else is not iterable and the spread throws a TypeError
Iterable(value) == value.kind \in {"array", "string"}

\* value.map(...) (line 616): a method of arrays only; for anything else the
\* call throws a TypeError
HasMap(value) == value.kind = "array"

InitLoad ==
    /\ InitRest
    /\ stats = EmptyHistory
    /\ stored \in StoredItems
    /\ probe = NoProbe

\* the load effect (lines 101-106); probe keeps the item found
LoadEffect ==
    /\ probe.fn = "none"
    /\ stats' = IF stored.text \in {"absent", "empty"} THEN stats
                ELSE IF stored.text = "garbage" THEN stats
                ELSE stored.value
    /\ probe' = [fn |-> "load", in |-> <<stored>>, out |-> <<"done">>]
    /\ UNCHANGED <<screen, gameType, timeLimit, score, mistakes, currentPri, currentElapsed>>
    /\ UNCHANGED <<stored, shown, gameVars>>

\* a session on the loaded history up to its end: startGame (lines 108-113),
\* the game mounted, sc correct answers (lines 309-316, 422-429)
PlayLoaded ==
    /\ probe.fn = "load"
    /\ \E type \in Games, sc \in 0..MaxAnswers :
          /\ gameType' = type /\ screen' = type /\ shown' = type
          /\ score' = sc /\ mistakes' = 0
    /\ probe' = [fn |-> "session", in |-> probe.in, out |-> <<"done">>]
    /\ UNCHANGED <<timeLimit, stats, currentPri, currentElapsed, stored, gameVars>>

\* endGame (lines 115-136) with the loaded history, after finalElapsed seconds
EndGameLoaded ==
    /\ probe.fn = "session"
    /\ \E finalElapsed \in {9, 10} :
          LET pri     == PRITable[<<score, mistakes, finalElapsed, gameType>>]
              newStat == StatEntry(Closure(gameType, score, mistakes, timeLimit, stats), pri, finalElapsed)
              thrown  == finalElapsed >= 10 /\ ~Iterable(stats)
              of      == IF stats.of = "summaries" THEN "summaries" ELSE "mixed"
              updatedStats == JSArray(of, Append(stats.items, newStat))
          IN  /\ currentPri' = pri
              /\ currentElapsed' = finalElapsed
              /\ IF finalElapsed >= 10 /\ ~thrown
                 THEN stats' = updatedStats /\ stored' = StoredItem("json", updatedStats)
                 ELSE UNCHANGED <<stats, stored>>
              /\ screen' = IF thrown THEN screen ELSE "result"
              /\ probe' = [ fn |-> "endGame", in |-> probe.in,
                            out |-> <<IF thrown THEN "TypeError" ELSE "done">> ]
    /\ UNCHANGED <<gameType, timeLimit, score, mistakes, shown, gameVars>>

\* the statistics button and the first render of StatsScreen (lines 148, 616)
StatsLoaded ==
    /\ probe.fn = "load"
    /\ screen' = "stats"
    /\ shown' = "stats"
    /\ probe' = [ fn |-> "StatsScreen", in |-> probe.in,
                  out |-> <<IF HasMap(stats) THEN "done" ELSE "TypeError">> ]
    /\ UNCHANGED <<gameType, timeLimit, score, mistakes, stats, currentPri, currentElapsed, stored>>
    /\ UNCHANGED gameVars

NextLoad == LoadEffect \/ PlayLoaded \/ EndGameLoaded \/ StatsLoaded

SpecLoad == InitLoad /\ [][NextLoad]_vars

(***************************************************************************)
(* Properties.                                                             *)
(***************************************************************************)
\* whether element x occurs in sequence array
Includes(array, x) == \E i \in 1..Len(array) : array[i] = x

\* C1: every match trial generateRound produces, in the match and in the
\* no-match branch, has isMatch true if and only if at least one of its two
\* targets is an element of its search group.
C1_IsMatchIffTargetInSearchGroup ==
    probe.fn = "MatchRound" =>
        (probe.out.isMatch <=>
            \E i \in 1..Len(probe.out.targets) : Includes(probe.out.searchGroup, probe.out.targets[i]))

\* a generated trial of the match branch: the search group holds a target
C1_Witness ==
    /\ probe.fn = "MatchRound"
    /\ probe.out.isMatch
    /\ Len(probe.out.targets) = 2
    /\ Len(probe.out.searchGroup) = 5
    /\ \/ Includes(probe.out.searchGroup, probe.out.targets[1])
       \/ Includes(probe.out.searchGroup, probe.out.targets[2])

\* C2: a second call of endGame in the same session, after one with
\* elapsed >= 10, is a no-op: it changes neither the persisted history nor the
\* history, the index and the elapsed time of the App.
C2_SecondEndGameIsNoOp ==
    [][ (endCalls >= 1 /\ lastEnd.elapsed >= 10 /\ endCalls' = endCalls + 1) =>
            /\ stored' = stored
            /\ stats' = stats
            /\ currentPri' = currentPri
            /\ currentElapsed' = currentElapsed ]_vars

\* C3: in every session onEnd is called at most once.
C3_OnEndAtMostOnce == endCalls <= 1

\* C4: a coding trial that follows another one of the session has a
\* currentNumber that differs from that of the trial before.
C4_NextNumberDiffers ==
    [][ (shown = "coding" /\ shown' = "coding" /\ round' > round) =>
            currentNumber' # currentNumber ]_vars

\* a coding session on its second or a later trial
C4_Witness == shown = "coding" /\ round >= 1 /\ currentNumber \in 1..5

\* C5: calculatePRI is an integer of 40..160 when elapsedSeconds >= 10 and is
\* 0 when elapsedSeconds < 10, for every score and mistakes and both games.
C5_IndexRange ==
    probe.fn = "calculatePRI" =>
        IF probe.in[3] >= 10 THEN probe.out \in 40..160 ELSE probe.out = 0

\* calculatePRI applied to score 0, mistakes 0 and 10 seconds or more
C5_Witness ==
    /\ probe.fn = "calculatePRI"
    /\ probe.in[1] = 0 /\ probe.in[2] = 0 /\ probe.in[3] >= 10
    /\ probe.out \in 40..160

\* the reference of the specification in exact arithmetic:
\* clamp(round(100 + ((max(0, score - mistakes) * 60 / elapsed - mean) / sd) * 15), 40, 160),
\* round being Math.round, the nearest integer and the upper one of two
ReferencePRI(score_, mistakes_, elapsedSeconds, gameType_) ==
    LET rawScore == Max(0, score_ - mistakes_)
        mean     == IF gameType_ = "symbol-match" THEN 45 ELSE 30
        sd       == IF gameType_ = "symbol-match" THEN 12 ELSE 8
        \* 100 + ((rawScore * 60 / elapsed - mean) / sd) * 15 = num / den
        num      == 100 * sd * elapsedSeconds + 15 * (rawScore * 60 - mean * elapsedSeconds)
        den      == sd * elapsedSeconds
    IN  Max(40, Min(160, (2 * num + den) \div (2 * den)))

\* C6: for elapsedSeconds >= 10 calculatePRI equals the reference; it is 75
\* for (30, 5, 60, symbol-match) and 81 for (20, 0, 60, coding).
C6_EqualsReference ==
    (probe.fn = "calculatePRI" /\ probe.in[3] >= 10) =>
        /\ probe.out = ReferencePRI(probe.in[1], probe.in[2], probe.in[3], probe.in[4])
        /\ probe.in = <<30, 5, 60, "symbol-match">> => probe.out = 75
        /\ probe.in = <<20, 0, 60, "coding">> => probe.out = 81

\* C7: a call of endGame with elapsed < 10 sets the index 0 and leaves the
\* history and the persisted history as they are; a call with elapsed >= 10
\* persists the history the session started from with one summary, of this
\* call, appended, and the first call of a session appends it to the
\* persisted history.
C7_AppendedIffTenSeconds ==
    [][ endCalls' = endCalls + 1 =>
            IF lastEnd'.elapsed < 10
            THEN currentPri' = 0 /\ stored' = stored /\ stats' = stats
            ELSE /\ Len(stored') = Len(onEndRef.stats) + 1
                 /\ SubSeq(stored', 1, Len(onEndRef.stats)) = onEndRef.stats
                 /\ stored'[Len(stored')].elapsed = lastEnd'.elapsed
                 /\ stored'[Len(stored')].score = onEndRef.score
                 /\ stored'[Len(stored')].mistakes = onEndRef.mistakes
                 /\ stats' = stored'
                 /\ endCalls = 0 => Len(stored') = Len(stored) + 1 ]_vars

\* a session with an answer, ended before 10 seconds: index 0, nothing persisted
C7_Witness ==
    /\ endCalls = 1
    /\ lastEnd.elapsed \in 0..9
    /\ onEndRef.score + onEndRef.mistakes > 0
    /\ currentPri = 0
    /\ stored = <<>>

\* C8: in a session with a fixed limit every call of onEnd is made at the
\* tick that brings the display to 0, the timeLimit-th, with elapsed = timeLimit.
C8_CountdownEndsAtLimit ==
    (shown \in Games /\ timeLimit # endless /\ endCalls >= 1) =>
        /\ lastEnd.src = "tick"
        /\ lastEnd.tick = timeLimit
        /\ lastEnd.display = 0
        /\ lastEnd.elapsed = timeLimit

\* C9: in an endless session onEnd is called by the stop button only, and its
\* argument is the number of ticks of the session, which the display shows.
C9_EndlessEndsOnStop ==
    (shown \in Games /\ timeLimit = endless /\ endCalls >= 1) =>
        /\ lastEnd.src = "stop"
        /\ lastEnd.elapsed = lastEnd.tick
        /\ lastEnd.elapsed = lastEnd.display

\* an endless session stopped at its 10th tick
C9_Witness ==
    /\ shown \in Games /\ timeLimit = endless
    /\ endCalls = 1
    /\ lastEnd.src = "stop" /\ lastEnd.elapsed = MaxEndlessTicks /\ ticks = MaxEndlessTicks

\* C10: a trial accepts one answer: until the advance to the next trial no
\* further answer is accepted, and no second advance is pending.
C10_OneAnswerPerTrial == trialAnswers <= 1 /\ pending <= 1

\* whether no element occurs twice in sequence array
NoRepeat(array) == \A i, j \in 1..Len(array) : array[i] = array[j] => i = j

\* the symbols of the pool
Pool == {ALL_SYMBOLS[i] : i \in 1..Len(ALL_SYMBOLS)}

\* C11: the map of every coding trial is defined on the digits 1..5 exactly
\* and assigns them 5 pairwise distinct symbols of the pool of 15.
C11_MapIsBijection ==
    probe.fn = "CodingRound" =>
        /\ DOMAIN probe.out.map = 1..5
        /\ \A i \in 1..5 : probe.out.map[i] \in Pool
        /\ \A i, j \in 1..5 : probe.out.map[i] = probe.out.map[j] => i = j
        /\ Cardinality({probe.out.map[i] : i \in 1..5}) = 5
        /\ Cardinality(Pool) = 15

\* a generated coding trial whose map is not the first five symbols in pool order
C11_Witness ==
    /\ probe.fn = "CodingRound"
    /\ Cardinality({probe.out.map[i] : i \in 1..5}) = 5
    /\ \E i \in 1..5 : probe.out.map[i] # ALL_SYMBOLS[i]

\* C12: in every generated match trial the two targets differ and the search
\* group holds no symbol twice, in the match and in the no-match branch.
C12_NoDuplicates ==
    probe.fn = "MatchRound" =>
        /\ Len(probe.out.targets) = 2
        /\ probe.out.targets[1] # probe.out.targets[2]
        /\ Len(probe.out.searchGroup) = 5
        /\ NoRepeat(probe.out.searchGroup)

\* a generated trial of the no-match branch, with five symbols to search
C12_Witness ==
    /\ probe.fn = "MatchRound"
    /\ ~probe.out.isMatch
    /\ Len(probe.out.searchGroup) = 5
    /\ probe.out.targets[1] # probe.out.targets[2]

\* C13: an answer is correct iff it equals isMatch (symbol match) or
\* currentNumber (coding); a correct one adds 1 to score and leaves mistakes,
\* an incorrect one adds 1 to mistakes and leaves score, and score + mistakes
\* is the number of answers the mounted game has accepted.
C13_AnswerScoring ==
    [][ /\ answered' = answered + 1 =>
              LET correct == IF shown = "symbol-match"
                             THEN probe'.in[1] = isMatch
                             ELSE probe'.in[1] = currentNumber
              IN  /\ correct <=> feedback' = "correct"
                  /\ IF correct
                     THEN score' = score + 1 /\ mistakes' = mistakes
                     ELSE mistakes' = mistakes + 1 /\ score' = score
        /\ shown' \in Games => score' + mistakes' = answered' ]_vars

\* a session after a correct and an incorrect answer
C13_Witness == shown \in Games /\ answered = 2 /\ score = 1 /\ mistakes = 1

\* C14: every start of a session, from the home screen or by retry, sets
\* score and mistakes to 0, and they are 0 when the game mounts with its
\* first trial, whatever they were before.
C14_StartResetsCounters ==
    [][ /\ (screen' \in Games /\ screen \notin Games) => (score' = 0 /\ mistakes' = 0)
        /\ (shown' \in Games /\ shown \notin Games) =>
              (score' = 0 /\ mistakes' = 0 /\ round' = 0 /\ answered' = 0) ]_vars

\* a retry after a session that ended with a summary of counters above 0
C14_Witness ==
    /\ shown = "result" /\ screen \in Games
    /\ score = 0 /\ mistakes = 0
    /\ Len(stored) = 1
    /\ stored[1].score > 0 /\ stored[1].mistakes > 0

\* C15: the persisted history is append-only: a step leaves it as it is or
\* adds one record at its end, and every record it held keeps its position
\* and its content.
C15_AppendOnly ==
    [][ /\ Len(stored') \in {Len(stored), Len(stored) + 1}
        /\ SubSeq(stored', 1, Len(stored)) = stored ]_vars

\* whether a stored item holds a sequence of summaries
HoldsSummaries(item) ==
    item.text = "json" /\ item.value.kind = "array" /\ item.value.of = "summaries"

\* C16: loading never fails: when the stored item is absent, not parseable or
\* no sequence of summaries, the history is the empty sequence after the
\* load, and endGame and StatsScreen work on the loaded history.
C16_LoadFallsBackToEmpty ==
    probe.fn \in {"load", "session", "endGame", "StatsScreen"} =>
        /\ (probe.fn = "load" /\ ~HoldsSummaries(probe.in[1])) => stats = EmptyHistory
        /\ probe.out[1] # "TypeError"

\* C17: Finalized (the result screen) is terminal for its session: from it
\* the App only returns to Idle (the home screen), and a session becomes
\* Active (a game screen) from Idle only, never from Finalized.
C17_ActiveOnlyFromIdle ==
    [][ /\ screen = "result" => screen' \in {"result", "home"}
        /\ (screen' \in Games /\ screen \notin Games) => screen # "result" ]_vars

\* C18: once a session is finalized, a timer tick or an advance callback of
\* it changes neither score, mistakes, the elapsed time of the result nor
\* the persisted history; once its game is unmounted, a callback of it
\* changes nothing at all.
C18_LateCallbacksAreNoOps ==
    [][ /\ (shown \in Games /\ endCalls >= 1 /\ (ticks' > ticks \/ round' > round)) =>
              UNCHANGED <<score, mistakes, currentElapsed, stats, stored>>
        /\ orphans' < orphans =>
              UNCHANGED <<appVars, shown, timerVars, trialVars, pending>> ]_vars

\* C19: a finalized session is read-only: while the App stays on the result
\* screen, score, mistakes, the elapsed seconds and the index do not change,
\* and the result view shows the index computed from the score, mistakes and
\* elapsed seconds it shows.
C19_FinalizedIsReadOnly ==
    [][ /\ (screen = "result" /\ screen' = "result") =>
              UNCHANGED <<score, mistakes, currentPri, currentElapsed>>
        /\ shown' = "result" =>
              currentPri' = PRITable[<<score', mistakes', currentElapsed', gameType'>>] ]_vars

\* C20: whenever a session is active or finalized the mode is one of the two
\* games and is the game being played; the closure endGame computes the
\* index from holds that mode, and every persisted summary names one of the
\* two games.
C20_ModeIsAGame ==
    /\ screen \in Games \cup {"result"} => gameType \in Games
    /\ screen \in Games => gameType = screen
    /\ shown \in Games => (gameType = shown /\ onEndRef.gameType = shown)
    /\ shown = "result" => gameType \in Games
    /\ \A i \in 1..Len(stats) : stats[i].gameType \in Games
    /\ \A i \in 1..Len(stored) : stored[i].gameType \in Games

C20_Witness ==
    /\ shown = "result" /\ gameType = "coding"
    /\ Len(stored) = 1 /\ stored[1].gameType = "coding"

\* C21: the first trial of a coding session has no digit to reject: when a
\* coding game is about to mount, each of the digits 1..5 can become the
\* target digit of its first trial.
C21_FirstDigitUnrestricted ==
    (screen = "coding" /\ shown # "coding" /\ sessions < MaxSessions) =>
        \A d \in 1..5 : ENABLED (ExitComplete /\ currentNumber' = d)

\* C22: every finalizing tick or stop computes the index from, and writes
\* into the summary, the score and mistakes as they are after the last
\* answer accepted before it.
C22_FinalizeUsesLatestCounters ==
    [][ endCalls' > endCalls =>
          /\ currentPri' = PRITable[<<score, mistakes, currentElapsed', gameType>>]
          /\ currentElapsed' >= 10 =>
                /\ stored'[Len(stored')].score = score
                /\ stored'[Len(stored')].mistakes = mistakes ]_vars

\* C23: a session with a fixed limit L has no stop: no call of onEnd in it
\* comes from the stop button, and it is not finalized before its L-th tick.
C23_NoStopInCountdown ==
    (shown \in Games /\ timeLimit # endless) =>
        /\ ~ ENABLED Stop
        /\ endCalls >= 1 => (lastEnd.src = "tick" /\ lastEnd.first >= timeLimit)
        /\ screen = "result" => ticks >= timeLimit

\* a session with limit 30 finalized by its 30th tick
C23_Witness ==
    /\ shown \in Games /\ timeLimit = 30 /\ screen = "result"
    /\ endCalls = 1 /\ lastEnd.src = "tick" /\ lastEnd.first = 30

\* C24: with the interval running, a mounted session with a fixed limit is
\* finalized sooner or later (the App goes to the result screen), whatever
\* answers and advances come in between.  Only a session whose limit lies
\* within the time the run is followed, MaxNow, is looked at.
C24_CountdownFinalizes ==
    (shown \in Games /\ timeLimit # endless /\ (now - ticks) + timeLimit <= MaxNow)
        ~> (screen = "result" /\ endCalls >= 1)

\* a session with limit 30 finalized with answers given and an advance
\* still outstanding
C24_Witness ==
    /\ shown \in Games /\ timeLimit = 30 /\ screen = "result"
    /\ answered >= 2 /\ pending >= 1 /\ ticks = 30

\* C25: every summary endGame has put into the history, in the App and in
\* the stored item, has elapsed >= 10, an index within 40..160, and the index
\* calculatePRI gives for its own score, mistakes, elapsed and gameType.
C25_SummariesAreConsistent ==
    \A h \in {stats, stored} : \A i \in 1..Len(h) :
        /\ h[i].elapsed >= 10
        /\ h[i].pri \in 40..160
        /\ h[i].pri = calculatePRI(h[i].score, h[i].mistakes, h[i].elapsed, h[i].gameType)

\* a persisted summary with an index above the lower clamp
C25_Witness ==
    /\ Len(stored) = 1 /\ stats = stored
    /\ stored[1].elapsed >= 10 /\ stored[1].pri > 40 /\ stored[1].score > stored[1].mistakes

\* C26: for one game and one elapsedSeconds >= 10, calculatePRI does not get
\* smaller when score grows by one, does not get larger when mistakes grow
\* by one, and with mistakes >= score is what it is for score 0, mistakes 0.
C26_Monotone ==
    (probe.fn = "calculatePRI" /\ probe.in[3] >= 10) =>
        LET sc == probe.in[1]
            mi == probe.in[2]
            el == probe.in[3]
            gt == probe.in[4]
        IN  /\ probe.out <= calculatePRI(sc + 1, mi, el, gt)
            /\ probe.out >= calculatePRI(sc, mi + 1, el, gt)
            /\ mi >= sc => probe.out = calculatePRI(0, 0, el, gt)

\* calculatePRI applied with more mistakes than score, and applied where one
\* more point raises it
C26_Witness ==
    /\ probe.fn = "calculatePRI" /\ probe.in[3] >= 10
    /\ \/ probe.in[2] > probe.in[1] /\ probe.in[1] > 0
       \/ /\ probe.in[1] > probe.in[2]
          /\ probe.out < calculatePRI(probe.in[1] + 1, probe.in[2], probe.in[3], probe.in[4])

====
